---- MODULE Spec2Model ----
(***************************************************************************)
(* gocat (src/main.go): the driver resolves a manifest into a list of      *)
(* URLs and downloads each one in fixed-size byte-range chunks with a      *)
(* bounded retry loop, writing every chunk body to the sink in order.      *)
(*                                                                         *)
(* Byte strings are modelled by extents: a body is a record                *)
(* [kind, from, to] naming the half-open range of the resource (kind       *)
(* "data") or of a server error page (kind "errpage") that it carries, so  *)
(* that sizes keep their real magnitude (batch sizes are multiples of      *)
(* 2^20).  All quantities stay far below 2^63; int64 wrap-around is not    *)
(* modelled.                                                               *)
(***************************************************************************)
EXTENDS Integers, Sequences, FiniteSets, TLC

VARIABLES
    MaxRetry,       \* flag -m (main.go:18,179)
    BatchSizeInMB,  \* flag -b (main.go:19,180)
    manifest,       \* lines of the manifest body served for the list URL
    files,          \* main's `files`
    pc,             \* position of the single thread of control
    fileIdx,        \* 1-based position of main's range loop in `files`
    probeResp,      \* response of the HEAD request of the current resource
    contentLen, numChunks, offset, offsetTo, chunk,  \* locals of downloadAndWrite
    i, resp, err,   \* locals / named results of downloadChunkWithRetry
    lastResp,       \* response seen by the latest downloadChunk call
    attempts,       \* downloadChunk calls made by the current downloadChunkWithRetry call
    fails,          \* how many of them returned an error
    ranges,         \* [offset, offsetTo) ranges iterated for the current resource
    wire,           \* per chunk of the current resource, its latest range request
    writes,         \* every w.Write call of the run, in order
    sink,           \* extents the sink holds, in order
    probes,         \* HEAD requests issued, per position in `files`
    rangeReqs,      \* range requests issued for the current resource
    fetched,        \* positions in `files` a range request was issued for
    marker,         \* TRUE once "COMPLETED!" has been printed
    fatalErr        \* the error handed to log.Fatal ("nil" while there is none)

vars == <<MaxRetry, BatchSizeInMB, manifest, files, pc, fileIdx, probeResp,
          contentLen, numChunks, offset, offsetTo, chunk, i, resp, err,
          lastResp, attempts, fails, ranges, wire, writes, sink, probes,
          rangeReqs, fetched, marker, fatalErr>>

(***************************************************************************)
(* Bounds of the model.                                                    *)
(***************************************************************************)
MaxLines == 2        \* lines in a manifest
MaxContentMB == 1    \* Content-Length values lie around 0 .. MaxContentMB MiB
MaxBatchMB == 1      \* -b ranges over 1 .. MaxBatchMB
MaxRetryBound == 2   \* -m ranges over -1 .. MaxRetryBound

Min(a, b) == IF a < b THEN a ELSE b

(***************************************************************************)
(* Go integer arithmetic: / truncates toward zero, % takes the sign of the *)
(* dividend (main.go:99-100), << 20 multiplies by 2^20 (main.go:98).       *)
(***************************************************************************)
GoDiv(a, b) == IF a >= 0 THEN a \div b ELSE -((-a) \div b)
GoMod(a, b) == a - b * GoDiv(a, b)
Shl20(n) == n * (2^20)

(***************************************************************************)
(* Text.  A string is a sequence of one-character strings.                 *)
(***************************************************************************)
Digits == <<"0", "1", "2", "3", "4", "5", "6", "7", "8", "9">>
IsDigit(c) == \E d \in 1..10 : Digits[d] = c
DigitVal(c) == (CHOOSE d \in 1..10 : Digits[d] = c) - 1

RECURSIVE FormatNat(_)
FormatNat(n) == IF n < 10 THEN <<Digits[n + 1]>>
                ELSE FormatNat(n \div 10) \o <<Digits[(n % 10) + 1]>>
\* decimal text of an integer, as a server writes its Content-Length
FormatInt(n) == IF n < 0 THEN <<"-">> \o FormatNat(-n) ELSE FormatNat(n)

RECURSIVE ParseDigits(_, _)
ParseDigits(s, acc) ==
    IF s = <<>> THEN [val |-> acc, err |-> "nil"]
    ELSE IF ~IsDigit(Head(s)) THEN [val |-> 0, err |-> "syntax"]
    ELSE ParseDigits(Tail(s), acc * 10 + DigitVal(Head(s)))

\* strconv.ParseInt(s, 10, 64): optional sign, then one or more digits
ParseInt(s) ==
    IF s = <<>> THEN [val |-> 0, err |-> "syntax"]
    ELSE LET signed == Head(s) \in {"+", "-"}
             body == IF signed THEN Tail(s) ELSE s
             p == ParseDigits(body, 0)
         IN  IF body = <<>> THEN [val |-> 0, err |-> "syntax"]
             ELSE IF p.err # "nil" THEN p
             ELSE IF Head(s) = "-" THEN [val |-> -p.val, err |-> "nil"]
             ELSE p

\* A line of the manifest: the characters `text` followed by `fill` further
\* characters that are not spelled out.
Line(t, n) == [text |-> t, fill |-> n]
LineLen(line) == Len(line.text) + line.fill

\* strings.HasPrefix(line, "http") (main.go:151)
HttpPrefix == <<"h", "t", "t", "p">>
HasPrefixHttp(line) ==
    /\ Len(line.text) >= Len(HttpPrefix)
    /\ SubSeq(line.text, 1, Len(HttpPrefix)) = HttpPrefix

\* bufio.MaxScanTokenSize, the buffer limit of bufio.NewScanner (main.go:148)
MaxScanTokenSize == 65536

\* downloadList's scan loop (main.go:146-163) over the lines of the body.
\* scanner.Scan() returns false at the end of the body and also at a line
\* that does not fit the scanner's buffer; scanner.Err() is read only inside
\* the loop (main.go:157), where it is nil, so either way the list built so
\* far is returned with a nil error.
RECURSIVE scanLines(_, _)
scanLines(lines, list) ==
    IF lines = <<>> THEN list
    ELSE IF LineLen(Head(lines)) >= MaxScanTokenSize THEN list
    ELSE scanLines(Tail(lines),
                   IF HasPrefixHttp(Head(lines)) THEN Append(list, Head(lines))
                   ELSE list)
downloadList(lines) == scanLines(lines, <<>>)

(***************************************************************************)
(* The environment: manifests, probe responses, range responses.           *)
(***************************************************************************)
UrlA == <<"h", "t", "t", "p", ":", "a">>
Comment == <<"#", "h", "t", "t", "p">>
LongComment == Line(Comment, MaxScanTokenSize - Len(Comment))
Lines == {Line(UrlA, 0), Line(Comment, 0), LongComment}
Manifests == UNION {[1..n -> Lines] : n \in 0..MaxLines}

\* sizes around the multiples of 1 MiB
ContentLens == {Shl20(k) + d : k \in 0..MaxContentMB, d \in {0, 1}}
ContentLengthHeaders ==
    {<<>>, <<"x">>, FormatInt(-1)} \cup {FormatInt(n) : n \in ContentLens}
AcceptRangesHeaders == {"bytes", "none", ""}

NoResp == [failed |-> TRUE, status |-> 0, acceptRanges |-> "", contentLength |-> <<>>]
ProbeResponses ==
    {NoResp} \cup
    [failed : {FALSE}, status : {200, 404},
     acceptRanges : AcceptRangesHeaders, contentLength : ContentLengthHeaders]

NilBytes == [kind |-> "nil", from |-> 0, to |-> 0]
BodyLen(b) == b.to - b.from
ErrPage == [kind |-> "errpage", from |-> 0, to |-> 1]

\* What a server holding `size` bytes sends for "Range: bytes=first-last".
RangeBody(size, first, last) ==
    IF 0 <= first /\ first <= last /\ first < size
    THEN [kind |-> "data", from |-> first, to |-> Min(last, size - 1) + 1]
    ELSE ErrPage

NoRangeResp == [failed |-> TRUE, status |-> 0, readOK |-> FALSE, body |-> NilBytes]
RangeResponses(size, first, last) ==
    {NoRangeResp} \cup
    {[failed |-> FALSE, status |-> 206, readOK |-> ok,
      body |-> RangeBody(size, first, last)] : ok \in BOOLEAN} \cup
    {[failed |-> FALSE, status |-> 500, readOK |-> TRUE, body |-> ErrPage]}

IsSuccessStatus(s) == s \in 200..299

(***************************************************************************)
(* checkHeaders (main.go:22-40) as a function of the probe response.       *)
(***************************************************************************)
\* (variant: any header but "none" passes)
AcceptRangesAny(v) == v # "none"
AcceptRangesOK(v) == v = "bytes"

checkHeaders(r) ==
    IF r.failed THEN [val |-> 0, err |-> "transport"]
    ELSE IF ~AcceptRangesOK(r.acceptRanges) THEN [val |-> 0, err |-> "accept-ranges"]
    ELSE LET p == ParseInt(r.contentLength)
         IN  IF p.err # "nil" THEN [val |-> 0, err |-> p.err] ELSE p

(***************************************************************************)
(* downloadChunk (main.go:42-67) as a function of the response.            *)
(***************************************************************************)
downloadChunk(r) ==
    IF r.failed THEN [bytes |-> NilBytes, err |-> "transport"]
    ELSE IF ~r.readOK THEN [bytes |-> NilBytes, err |-> "read"]
    ELSE [bytes |-> r.body, err |-> "nil"]

Init ==
    /\ MaxRetry \in (-1)..MaxRetryBound
    /\ BatchSizeInMB \in 1..MaxBatchMB
    /\ manifest \in Manifests
    /\ files = <<>>
    /\ pc = "list"
    /\ fileIdx = 0
    /\ probeResp = NoResp
    /\ contentLen = 0 /\ numChunks = 0 /\ offset = 0 /\ offsetTo = 0 /\ chunk = 0
    /\ i = 0 /\ resp = NilBytes /\ err = "nil"
    /\ lastResp = NoRangeResp
    /\ attempts = 0 /\ fails = 0
    /\ ranges = <<>> /\ wire = <<>> /\ writes = <<>> /\ sink = <<>>
    /\ probes = <<>> /\ rangeReqs = 0 /\ fetched = {}
    /\ marker = FALSE
    /\ fatalErr = "nil"

(***************************************************************************)
(* Decisions of the code, one definition each.  A definition without a     *)
(* line reference is a faulty variant of the one that follows it; the      *)
(* properties below are required to tell the two apart.                    *)
(***************************************************************************)
batchSize == Shl20(BatchSizeInMB)                                \* main.go:98
NumChunks(len, bs) ==                                            \* main.go:99-102
    IF GoMod(len, bs) > 0 THEN GoDiv(len, bs) + 1 ELSE GoDiv(len, bs)
LoopCondInclusive(off, len) == off <= len
LoopCond(off, len) == off < len                                  \* main.go:107
ChunkEndNoClamp(off, bs, len) == off + bs
ChunkEnd(off, bs, len) == IF off + bs > len THEN len ELSE off + bs  \* main.go:108-111
WireLastExclusive(to) == to
WireLast(to) == to - 1                                           \* main.go:123
\* fmt.Sprintf("bytes=%v-%v", offsetFrom, offsetTo) (main.go:52)
RangeStr(first, last) == <<"bytes=">> \o FormatInt(first) \o <<"-">> \o FormatInt(last)
\* the request downloadChunk sends for its arguments (main.go:47-55)
RangeRequest(first, last) ==
    [first |-> first, last |-> last, header |-> RangeStr(first, last)]
NextOffsetOverlap(to) == to - 1
NextOffset(to) == to                                             \* main.go:132
RetryForever(n) == TRUE
RetryLoopCond(n) == n < MaxRetry                                 \* main.go:74
BreakNever(e) == FALSE
BreakOnSuccess(e) == e = "nil"                                   \* main.go:76
ContinuePc == "done"
FatalPc == "fatal"                                               \* main.go:186,191

\* log.Fatal(err): the message is printed and the process exits
Fatal(e) ==
    /\ pc' = FatalPc
    /\ fatalErr' = e

\* (variant: a failed probe is tried again)
OnProbeErrorRetry(e) == pc' = "range" /\ UNCHANGED fatalErr
\* main.go:93-96: if err != nil { return err }
OnProbeError(e) == Fatal(e)

\* (variant: the error of w.Write is dropped and the loop goes round again)
OnWriteErrorIgnored == pc' = "loop" /\ UNCHANGED fatalErr
\* main.go:128-130: if _, err = w.Write(resp); err != nil { return err }
OnWriteError == Fatal("write")

\* (variant: the loop counter is a package variable that is never reset)
KeepRetryCounter ==
    /\ i' = i /\ resp' = NilBytes /\ err' = "nil"
    /\ lastResp' = NoRangeResp /\ attempts' = 0 /\ fails' = 0
\* main.go:73-74: resp, err and i are fresh in every downloadChunkWithRetry call
ResetChunkLocals ==
    /\ i' = 0 /\ resp' = NilBytes /\ err' = "nil"
    /\ lastResp' = NoRangeResp /\ attempts' = 0 /\ fails' = 0

\* main.go:184-187: files, err := downloadList(url)
DownloadList ==
    /\ pc = "list"
    /\ \E ok \in BOOLEAN :
         IF ok
         THEN /\ files' = downloadList(manifest)
              /\ manifest' = <<>>
              /\ probes' = [j \in 1..Len(files') |-> 0]
              /\ fileIdx' = 1
              /\ pc' = "range"
              /\ UNCHANGED fatalErr
         ELSE /\ Fatal("transport")
              /\ UNCHANGED <<manifest, files, fileIdx, probes>>
    /\ UNCHANGED <<MaxRetry, BatchSizeInMB, probeResp, contentLen, numChunks,
                   offset, offsetTo, chunk, i, resp, err, lastResp, attempts,
                   fails, ranges, wire, writes, sink, rangeReqs, fetched,
                   marker>>

\* main.go:189-190 and 92-106: the next file is handed to downloadAndWrite,
\* which probes it and plans the chunks
Probe ==
    /\ pc = "range"
    /\ fileIdx <= Len(files)
    /\ \E r \in ProbeResponses :
         LET h == checkHeaders(r) IN
         /\ probeResp' = r
         /\ probes' = [probes EXCEPT ![fileIdx] = @ + 1]
         /\ IF h.err # "nil"
            THEN /\ OnProbeError(h.err)
                 /\ UNCHANGED <<contentLen, numChunks, offset, chunk>>
            ELSE /\ contentLen' = h.val
                 /\ numChunks' = NumChunks(h.val, batchSize)
                 /\ chunk' = 1
                 /\ offset' = 0
                 /\ pc' = "loop"
                 /\ UNCHANGED fatalErr
    /\ UNCHANGED <<MaxRetry, BatchSizeInMB, manifest, files, fileIdx,
                   offsetTo, i, resp, err, lastResp, attempts, fails, ranges,
                   wire, writes, sink, rangeReqs, fetched, marker>>

\* main.go:107-123: loop test, chunk end, progress line, call of
\* downloadChunkWithRetry
ChunkStart ==
    /\ pc = "loop"
    /\ LoopCond(offset, contentLen)
    /\ offsetTo' = ChunkEnd(offset, batchSize, contentLen)
    /\ ranges' = Append(ranges, [from |-> offset, to |-> offsetTo'])
    /\ ResetChunkLocals
    /\ pc' = "retry"
    /\ UNCHANGED <<MaxRetry, BatchSizeInMB, manifest, files, fileIdx,
                   probeResp, contentLen, numChunks, offset, chunk, wire,
                   writes, sink, probes, rangeReqs, fetched, marker, fatalErr>>

\* main.go:107,136: the loop ends, downloadAndWrite returns nil
ReturnNil ==
    /\ pc = "loop"
    /\ ~LoopCond(offset, contentLen)
    /\ pc' = "done"
    /\ UNCHANGED <<MaxRetry, BatchSizeInMB, manifest, files, fileIdx,
                   probeResp, contentLen, numChunks, offset, offsetTo, chunk,
                   i, resp, err, lastResp, attempts, fails, ranges, wire,
                   writes, sink, probes, rangeReqs, fetched, marker, fatalErr>>

\* main.go:74-78: one pass of the retry loop, a call of downloadChunk
Attempt ==
    /\ pc = "retry"
    /\ RetryLoopCond(i)
    /\ \E r \in RangeResponses(contentLen, offset, WireLast(offsetTo)) :
         LET d == downloadChunk(r) IN
         /\ lastResp' = r
         /\ resp' = d.bytes
         /\ err' = d.err
         /\ fails' = IF d.err = "nil" THEN fails ELSE fails + 1
         /\ pc' = IF BreakOnSuccess(d.err) THEN "returned" ELSE "sleep"
    /\ wire' = LET req == RangeRequest(offset, WireLast(offsetTo))
               IN  IF attempts = 0 THEN Append(wire, req)
                   ELSE [wire EXCEPT ![Len(wire)] = req]
    /\ attempts' = attempts + 1
    /\ rangeReqs' = rangeReqs + 1
    /\ fetched' = fetched \cup {fileIdx}
    /\ UNCHANGED <<MaxRetry, BatchSizeInMB, manifest, files, fileIdx,
                   probeResp, contentLen, numChunks, offset, offsetTo, chunk,
                   i, ranges, writes, sink, probes, marker, fatalErr>>

\* main.go:79-88 and the i++ of line 74: retry line, one second of sleep
Sleep ==
    /\ pc = "sleep"
    /\ i' = i + 1
    /\ pc' = "retry"
    /\ UNCHANGED <<MaxRetry, BatchSizeInMB, manifest, files, fileIdx,
                   probeResp, contentLen, numChunks, offset, offsetTo, chunk,
                   resp, err, lastResp, attempts, fails, ranges, wire, writes,
                   sink, probes, rangeReqs, fetched, marker, fatalErr>>

\* main.go:74,89: the loop test fails, downloadChunkWithRetry returns
Exhausted ==
    /\ pc = "retry"
    /\ ~RetryLoopCond(i)
    /\ pc' = "returned"
    /\ UNCHANGED <<MaxRetry, BatchSizeInMB, manifest, files, fileIdx,
                   probeResp, contentLen, numChunks, offset, offsetTo, chunk,
                   i, resp, err, lastResp, attempts, fails, ranges, wire,
                   writes, sink, probes, rangeReqs, fetched, marker, fatalErr>>

\* main.go:123-126: downloadAndWrite looks at the returned error
Returned ==
    /\ pc = "returned"
    /\ IF err # "nil"
       THEN Fatal(err)
       ELSE pc' = "write" /\ UNCHANGED fatalErr
    /\ UNCHANGED <<MaxRetry, BatchSizeInMB, manifest, files, fileIdx,
                   probeResp, contentLen, numChunks, offset, offsetTo, chunk,
                   i, resp, err, lastResp, attempts, fails, ranges, wire,
                   writes, sink, probes, rangeReqs, fetched, marker>>

WriteRec(body, ok) ==
    [file |-> fileIdx, chunk |-> chunk, offset |-> offset, offsetTo |-> offsetTo,
     body |-> body, ok |-> ok]
\* the first n bytes of body, as the sink receives them
Extent(body, n) ==
    [file |-> fileIdx, kind |-> body.kind, from |-> body.from, to |-> body.from + n]
\* (variant: the sink is rewound before the write)
SinkOverwrite(s, body, n) == IF n > 0 THEN <<Extent(body, n)>> ELSE s
SinkAppend(s, body, n) == IF n > 0 THEN Append(s, Extent(body, n)) ELSE s

\* main.go:128-133: w.Write(resp); a failing Write may have written a prefix
Write ==
    /\ pc = "write"
    /\ \/ /\ writes' = Append(writes, WriteRec(resp, TRUE))
          /\ sink' = SinkAppend(sink, resp, BodyLen(resp))
          /\ offset' = NextOffset(offsetTo)
          /\ chunk' = chunk + 1
          /\ ResetChunkLocals
          /\ pc' = "loop"
          /\ UNCHANGED fatalErr
       \/ /\ \E n \in {0, 1} :
               /\ n < BodyLen(resp) \/ n = 0
               /\ sink' = SinkAppend(sink, resp, n)
          /\ writes' = Append(writes, WriteRec(resp, FALSE))
          /\ OnWriteError
          /\ UNCHANGED <<offset, chunk, i, resp, err, lastResp, attempts,
                         fails>>
    /\ UNCHANGED <<MaxRetry, BatchSizeInMB, manifest, files, fileIdx,
                   probeResp, contentLen, numChunks, offsetTo, ranges, wire,
                   probes, rangeReqs, fetched, marker>>

\* main.go:189: downloadAndWrite returned nil, the range loop moves on
MainNext ==
    /\ pc = "done"
    /\ fileIdx' = fileIdx + 1
    /\ pc' = "range"
    /\ probeResp' = NoResp
    /\ contentLen' = 0 /\ numChunks' = 0 /\ offset' = 0 /\ offsetTo' = 0 /\ chunk' = 0
    /\ ranges' = <<>>
    /\ wire' = <<>>
    /\ rangeReqs' = 0
    /\ UNCHANGED <<MaxRetry, BatchSizeInMB, manifest, files, i, resp, err,
                   lastResp, attempts, fails, writes, sink, probes, fetched,
                   marker, fatalErr>>

\* main.go:189,195: the list is exhausted, the completion marker is printed
Completed ==
    /\ pc = "range"
    /\ fileIdx > Len(files)
    /\ marker' = TRUE
    /\ pc' = "completed"
    /\ UNCHANGED <<MaxRetry, BatchSizeInMB, manifest, files, fileIdx,
                   probeResp, contentLen, numChunks, offset, offsetTo, chunk,
                   i, resp, err, lastResp, attempts, fails, ranges, wire,
                   writes, sink, probes, rangeReqs, fetched, fatalErr>>

Next ==
    \/ DownloadList
    \/ Probe
    \/ ChunkStart
    \/ ReturnNil
    \/ Attempt
    \/ Sleep
    \/ Exhausted
    \/ Returned
    \/ Write
    \/ MainNext
    \/ Completed

Spec == Init /\ [][Next]_vars

(***************************************************************************)
(* Helpers of the properties.                                              *)
(***************************************************************************)
InDownload == pc \in {"loop", "retry", "sleep", "returned", "write", "done"}
WritesOf(f) == SelectSeq(writes, LAMBDA w : w.file = f)
SinkOf(f) == SelectSeq(sink, LAMBDA e : e.file = f)
RECURSIVE TotalLen(_)
TotalLen(es) == IF es = <<>> THEN 0 ELSE (Head(es).to - Head(es).from) + TotalLen(Tail(es))
\* es is the resource body [0, n) cut into consecutive pieces
IsBodyOf(es, n) ==
    /\ \A k \in 1..Len(es) :
         /\ es[k].kind = "data"
         /\ es[k].from = (IF k = 1 THEN 0 ELSE es[k - 1].to)
         /\ es[k].from < es[k].to
    /\ (IF es = <<>> THEN 0 ELSE es[Len(es)].to) = n
CeilDiv(a, b) == (a + b - 1) \div b
LastFailed == lastResp.failed \/ ~lastResp.readOK \/ ~IsSuccessStatus(lastResp.status)

(***************************************************************************)
(* C1: the w.Write calls of a run are totally ordered: the first write of  *)
(* a resource is chunk 1 at offset 0, each further write of the resource   *)
(* is the next chunk and starts where the previous one ended (none twice,  *)
(* none skipped), and the writes of a resource all come before the writes  *)
(* of any later resource, however many attempts a chunk took.              *)
(***************************************************************************)
C1_WriteOrder ==
    \A k \in 1..Len(writes) :
      LET w == writes[k] IN
      /\ w.offset < w.offsetTo
      /\ IF k > 1 /\ writes[k - 1].file = w.file
         THEN /\ writes[k - 1].ok
              /\ w.chunk = writes[k - 1].chunk + 1
              /\ w.offset = writes[k - 1].offsetTo
         ELSE /\ w.chunk = 1
              /\ w.offset = 0
              /\ k > 1 => writes[k - 1].file < w.file

C1_Witness ==
    /\ Len(writes) = 3
    /\ writes[1].file = 1 /\ writes[2].file = 1 /\ writes[3].file = 2
    /\ pc = "write" /\ fileIdx = 2 /\ chunk = 2 /\ fails = 1

(***************************************************************************)
(* C2: for a probed size >= 0 the ranges [offset, offsetTo) the loop goes  *)
(* through start at 0, each starts where the previous ended, each is 1 to  *)
(* batchSize long and only one ending at the size is shorter than          *)
(* batchSize; numChunks is ceil(size / batchSize), 0 exactly for size 0,   *)
(* and when the loop is over the ranges end at the size and number         *)
(* numChunks.                                                              *)
(***************************************************************************)
C2_ChunkPlan ==
    (InDownload /\ contentLen >= 0) =>
      /\ \A k \in 1..Len(ranges) :
           /\ ranges[k].from = (IF k = 1 THEN 0 ELSE ranges[k - 1].to)
           /\ ranges[k].to - ranges[k].from \in 1..batchSize
           /\ ranges[k].to <= contentLen
           /\ ranges[k].to - ranges[k].from < batchSize => ranges[k].to = contentLen
      /\ numChunks = CeilDiv(contentLen, batchSize)
      /\ (numChunks = 0) <=> (contentLen = 0)
      /\ Len(ranges) <= numChunks
      /\ pc = "done" =>
           /\ Len(ranges) = numChunks
           /\ (IF ranges = <<>> THEN 0 ELSE ranges[Len(ranges)].to) = contentLen

C2_Witness ==
    /\ pc = "done"
    /\ Len(ranges) = 2
    /\ ranges[1].to - ranges[1].from = batchSize
    /\ ranges[2].to - ranges[2].from < batchSize

(***************************************************************************)
(* C3: when downloadAndWrite returns nil for a resource whose probe        *)
(* reported the size N >= 0, the sink received exactly N bytes for it and  *)
(* they are the resource body in ascending offset order.                   *)
(***************************************************************************)
C3_ExactBody ==
    (pc = "done" /\ contentLen >= 0) =>
      /\ TotalLen(SinkOf(fileIdx)) = contentLen
      /\ IsBodyOf(SinkOf(fileIdx), contentLen)

(***************************************************************************)
(* C4: when downloadChunkWithRetry returns after k failed calls of         *)
(* downloadChunk with k < MaxRetry, it made exactly k + 1 calls, the last  *)
(* one succeeded, and it returns that call's bytes with a nil error (no    *)
(* call follows the successful one).                                       *)
(***************************************************************************)
C4_RetryUntilSuccess ==
    (pc = "returned" /\ fails < MaxRetry) =>
      /\ attempts = fails + 1
      /\ err = "nil"
      /\ downloadChunk(lastResp).err = "nil"
      /\ resp = downloadChunk(lastResp).bytes

C4_Witness ==
    /\ pc = "returned" /\ fails = 1 /\ attempts = 2
    /\ err = "nil" /\ resp.kind = "data"

(***************************************************************************)
(* C5: whatever MaxRetry is, when downloadChunkWithRetry returns without a *)
(* successful call it has made exactly MaxRetry calls and returns the      *)
(* error of the last one, which is not nil, so the chunk is never written. *)
(***************************************************************************)
C5_ExhaustionFails ==
    /\ (pc = "returned" /\ fails = attempts) =>
         /\ attempts = MaxRetry
         /\ err # "nil"
         /\ err = downloadChunk(lastResp).err
    /\ \A k \in 1..Len(writes) : writes[k].body.kind # "nil"

(***************************************************************************)
(* C6: a probe response whose Accept-Ranges header is absent or is not     *)
(* `bytes` ends the download of that resource with an error, with no range *)
(* request issued and nothing written for it, whatever Content-Length is.  *)
(***************************************************************************)
C6_NoRangeSupport ==
    (~probeResp.failed /\ probeResp.acceptRanges # "bytes") =>
      /\ pc = "fatal"
      /\ fatalErr = "accept-ranges"
      /\ rangeReqs = 0
      /\ fileIdx \notin fetched
      /\ WritesOf(fileIdx) = <<>>
      /\ SinkOf(fileIdx) = <<>>

C6_Witness ==
    /\ pc = "fatal" /\ fileIdx = 2
    /\ ~probeResp.failed /\ probeResp.acceptRanges = ""
    /\ probeResp.contentLength = FormatInt(Shl20(1))
    /\ SinkOf(1) # <<>>

(***************************************************************************)
(* C7: a resource probed with size 0 goes from the loop test straight to   *)
(* the nil return: no range request, no write.                             *)
(***************************************************************************)
C7_EmptyResource ==
    (InDownload /\ contentLen = 0) =>
      /\ pc \in {"loop", "done"}
      /\ rangeReqs = 0
      /\ fileIdx \notin fetched
      /\ WritesOf(fileIdx) = <<>>
      /\ ranges = <<>>
      /\ fatalErr = "nil"

C7_Witness ==
    /\ pc = "done" /\ contentLen = 0
    /\ ~probeResp.failed /\ probeResp.contentLength = <<"0">>

(***************************************************************************)
(* C8: once the download of the resource at position fileIdx has failed,   *)
(* the run is in the fatal state, no later resource has been or is probed  *)
(* or fetched, and the completion marker is not printed.                   *)
(***************************************************************************)
C8_FailureStopsRun ==
    fatalErr # "nil" =>
      /\ pc = "fatal"
      /\ ~marker
      /\ \A j \in 1..Len(files) : j > fileIdx => (probes[j] = 0 /\ j \notin fetched)

C8_Witness ==
    /\ pc = "fatal" /\ fatalErr = "read"
    /\ Len(files) = 2 /\ fileIdx = 1
    /\ attempts = MaxRetry /\ fails = MaxRetry /\ MaxRetry = 2
    /\ Len(writes) = 1 /\ probes[2] = 0

(***************************************************************************)
(* C9: a probe response whose Content-Length is missing or is not the text *)
(* of a non-negative integer makes the download of that resource fail; it  *)
(* never gets into the chunk loop or returns nil.                          *)
(***************************************************************************)
C9_BadSizeFails ==
    (/\ ~probeResp.failed
     /\ probeResp.acceptRanges = "bytes"
     /\ \/ ParseInt(probeResp.contentLength).err # "nil"
        \/ ParseInt(probeResp.contentLength).val < 0) =>
      (pc = "fatal" /\ fatalErr # "nil")

(***************************************************************************)
(* C10: a downloadChunk call whose response has a non-success status or    *)
(* whose body read fails returns an error and no bytes, and no byte of     *)
(* such a response reaches the sink.                                       *)
(***************************************************************************)
C10_BadResponseFails ==
    /\ (pc \in {"sleep", "returned"} /\ attempts > 0 /\ LastFailed) =>
         (err # "nil" /\ resp = NilBytes)
    /\ \A k \in 1..Len(sink) : sink[k].kind # "errpage"

(***************************************************************************)
(* C11: a probe that cannot be completed or whose response has a           *)
(* non-success status ends the download of that resource with an error,    *)
(* no range request issued and nothing written, whatever headers the       *)
(* response carries.                                                       *)
(***************************************************************************)
C11_BadProbeFails ==
    (/\ fileIdx \in 1..Len(files)
     /\ probes[fileIdx] > 0
     /\ probeResp.failed \/ ~IsSuccessStatus(probeResp.status)) =>
      /\ pc = "fatal"
      /\ rangeReqs = 0
      /\ fileIdx \notin fetched
      /\ WritesOf(fileIdx) = <<>>

(***************************************************************************)
(* C12: for every manifest body downloadList returns exactly the lines     *)
(* that begin with `http`, in their order and with duplicates kept: no     *)
(* other line appears and no such line is dropped.                         *)
(***************************************************************************)
C12_ListIsFilter ==
    [][(pc = "list" /\ pc' = "range") =>
         files' = SelectSeq(manifest, HasPrefixHttp)]_vars

(***************************************************************************)
(* C13: every range request issued for a chunk [from, to), first attempt   *)
(* or retry, carries bytes=<from>-<to-1> with 0 <= from <= to-1 < size,    *)
(* and the wire range of a chunk starts right after the inclusive end of   *)
(* the previous chunk's wire range: no overlap, no gap.                    *)
(***************************************************************************)
C13_WireRange ==
    /\ Len(wire) <= Len(ranges)
    /\ attempts > 0 => Len(wire) = Len(ranges)
    /\ \A k \in 1..Len(wire) :
         /\ wire[k].first = ranges[k].from
         /\ wire[k].last = ranges[k].to - 1
         /\ wire[k].header =
              <<"bytes=">> \o FormatInt(ranges[k].from) \o <<"-">>
                \o FormatInt(ranges[k].to - 1)
         /\ 0 <= wire[k].first
         /\ wire[k].first <= wire[k].last
         /\ wire[k].last < contentLen
         /\ k > 1 => wire[k].first = wire[k - 1].last + 1

C13_Witness ==
    /\ Len(wire) = 2 /\ attempts = 2 /\ pc = "sleep"
    /\ wire[1].first = 0 /\ wire[1].last = batchSize - 1
    /\ wire[2].first = batchSize /\ wire[2].last = contentLen - 1

(***************************************************************************)
(* C14: a w.Write call that fails is the last thing the run does for the   *)
(* sink and the network: downloadAndWrite returns the error at once, the   *)
(* write is not repeated, the chunk is not fetched again, and no later     *)
(* chunk of the resource is started, requested or written.                 *)
(***************************************************************************)
C14_WriteFailureAborts ==
    \A k \in 1..Len(writes) :
      ~writes[k].ok =>
        /\ k = Len(writes)
        /\ pc = "fatal" /\ fatalErr = "write"
        /\ fileIdx = writes[k].file
        /\ chunk = writes[k].chunk /\ offset = writes[k].offset
        /\ Len(ranges) = writes[k].chunk
        /\ resp = writes[k].body
        /\ attempts > 0 =>
             (attempts = fails + 1 /\ Len(wire) = writes[k].chunk
              /\ resp = downloadChunk(lastResp).bytes)

C14_Witness ==
    /\ Len(writes) = 2 /\ writes[1].ok /\ ~writes[2].ok
    /\ writes[2].chunk = 2 /\ pc = "fatal" /\ fatalErr = "write"

(***************************************************************************)
(* Helpers of C15.                                                         *)
(***************************************************************************)
\* the chunk body held in resp, as the sink receives it when written whole
WholeBody == Extent(resp, BodyLen(resp))
SinkGrowsByWholeBody ==
    /\ pc = "write"
    /\ BodyLen(resp) > 0
    /\ sink' = Append(sink, WholeBody)
SinkGrowsByPrefix ==
    /\ pc = "write" /\ pc' = "fatal" /\ fatalErr' = "write"
    /\ Len(sink') = Len(sink) + 1
    /\ SubSeq(sink', 1, Len(sink)) = sink
    /\ LET e == sink'[Len(sink')] IN
         /\ e.file = fileIdx /\ e.kind = resp.kind /\ e.from = resp.from
         /\ e.from < e.to /\ e.to < resp.to
Aborts == pc # "fatal" /\ pc' = "fatal"
RECURSIVE BodiesOf(_)
\* the extents a sequence of complete writes puts into the sink
BodiesOf(ws) ==
    IF ws = <<>> THEN <<>>
    ELSE LET w == Head(ws)
             e == [file |-> w.file, kind |-> w.body.kind,
                   from |-> w.body.from, to |-> w.body.to]
         IN  (IF w.body.to > w.body.from THEN <<e>> ELSE <<>>) \o BodiesOf(Tail(ws))
\* the run was aborted by a probe failure or by retry exhaustion
AbortedByFetch == pc = "fatal" /\ fatalErr # "write" /\ fileIdx >= 1
SinkIsEarlierChunks ==
    /\ \A k \in 1..Len(writes) : writes[k].ok /\ writes[k].file <= fileIdx
    /\ sink = BodiesOf(writes)
    /\ attempts > 0 => Len(WritesOf(fileIdx)) = chunk - 1

(***************************************************************************)
(* C15 as stated: in every step the sink is unchanged or is extended by    *)
(* one chunk body, and every transition to the aborted state leaves the    *)
(* sink unchanged; after retry exhaustion at chunk K the sink holds what   *)
(* was written for the earlier resources and chunks 1..K-1.                *)
(***************************************************************************)
C15_AppendOnlyOriginal ==
    /\ [][/\ sink' = sink \/ SinkGrowsByWholeBody
          /\ Aborts => sink' = sink]_vars
    /\ [](AbortedByFetch => SinkIsEarlierChunks)

(***************************************************************************)
(* C15 amended: in every step the sink is unchanged, or is extended by one *)
(* chunk body, or, when w.Write fails, by a proper prefix of that chunk    *)
(* body; a transition to the aborted state caused by a probe failure or by *)
(* retry exhaustion leaves the sink unchanged, so after retry exhaustion   *)
(* at chunk K the sink holds what was written for the earlier resources    *)
(* and chunks 1..K-1 of the failing one.                                   *)
(***************************************************************************)
C15_AppendOnly ==
    /\ [][/\ sink' = sink \/ SinkGrowsByWholeBody \/ SinkGrowsByPrefix
          /\ (Aborts /\ pc # "write") => sink' = sink]_vars
    /\ [](AbortedByFetch => SinkIsEarlierChunks)

C15_Witness ==
    /\ pc = "fatal" /\ fatalErr = "read"
    /\ attempts = 2 /\ fails = 2
    /\ fileIdx = 2 /\ chunk = 2
    /\ Len(sink) = 3 /\ sink[1].file = 1 /\ sink[2].file = 1 /\ sink[3].file = 2

\* the number of downloadChunk calls the loop of main.go:74 allows
Budget == IF MaxRetry > 0 THEN MaxRetry ELSE 0

(***************************************************************************)
(* C16: the attempt counter belongs to one chunk: every chunk of every     *)
(* resource starts with i = 0 and no call made, so MaxRetry - i, the       *)
(* attempts still available, is the whole MaxRetry whatever earlier chunks *)
(* and resources used up; while the loop runs i is the number of calls     *)
(* made for this chunk, and no chunk gets more calls than the budget (a    *)
(* budget below 1 allows none).                                            *)
(***************************************************************************)
C16_CounterPerChunk ==
    /\ [][(pc = "loop" /\ pc' = "retry") => (i' = 0 /\ attempts' = 0)]_vars
    /\ [](pc = "retry" => i = attempts)
    /\ [](attempts <= Budget)

C16_Witness ==
    /\ pc = "retry" /\ i = 0 /\ attempts = 0
    /\ fileIdx = 2 /\ chunk = 2 /\ rangeReqs = 2 /\ MaxRetry = 2

(***************************************************************************)
(* C17: every failed attempt is followed by one retry line and one delay   *)
(* (the Sleep step), every such delay is followed by another attempt for   *)
(* the same chunk, and no retry line or delay follows a successful         *)
(* attempt.                                                                *)
(***************************************************************************)
C17_DelayThenRetry ==
    /\ pc = "sleep" =>
         /\ err # "nil"
         /\ fails = i + 1
         /\ RetryLoopCond(i + 1)
    /\ (pc = "returned" /\ err = "nil") => i = fails

(***************************************************************************)
(* C18: every resource handed to downloadAndWrite is probed exactly once,  *)
(* before any range request for it; resources not yet handed over are not  *)
(* probed; a probe that fails is not repeated, the download is aborted.    *)
(***************************************************************************)
C18_OneProbe ==
    /\ \A j \in 1..Len(files) :
         /\ probes[j] = (IF j < fileIdx \/ (j = fileIdx /\ pc # "range") THEN 1 ELSE 0)
         /\ j \in fetched => probes[j] = 1
    /\ pc = "range" => (rangeReqs = 0 /\ fileIdx \notin fetched)
    /\ (/\ fileIdx \in 1..Len(files)
        /\ pc # "range"
        /\ checkHeaders(probeResp).err # "nil") =>
         (pc = "fatal" /\ rangeReqs = 0 /\ fileIdx \notin fetched)

C18_Witness ==
    /\ pc = "fatal" /\ fileIdx = 2 /\ probes = <<1, 1>>
    /\ probeResp.failed /\ fatalErr = "transport"
    /\ fetched = {1}

(***************************************************************************)
(* C19: downloadChunkWithRetry returns a nil error only after a call of    *)
(* downloadChunk that returned a nil error, so downloadAndWrite returns    *)
(* nil only if a range request was issued and succeeded for every chunk.   *)
(***************************************************************************)
C19_NilOnlyAfterSuccess ==
    /\ (pc = "returned" /\ err = "nil") =>
         (attempts > 0 /\ downloadChunk(lastResp).err = "nil")
    /\ pc = "done" => Len(wire) = Len(ranges)

(***************************************************************************)
(* Helpers of C20: a measure of the work downloadAndWrite has left.        *)
(***************************************************************************)
Downloading == pc \in {"loop", "retry", "sleep", "returned", "write"}
\* chunks not yet written
Remaining ==
    IF offset < contentLen THEN CeilDiv(contentLen - offset, batchSize) ELSE 0
StageRank ==
    CASE pc = "loop" -> 2 * Budget + 4
      [] pc = "retry" -> 2 * (Budget - i) + 3
      [] pc = "sleep" -> 2 * (Budget - i) + 2
      [] pc = "returned" -> 2
      [] pc = "write" -> 1
      [] OTHER -> 0
Rank == IF Downloading THEN Remaining * (2 * Budget + 5) + StageRank ELSE 0

(***************************************************************************)
(* C20: downloadAndWrite always ends, in Done or Aborted, whatever the     *)
(* fetches do: while it runs a step is always possible and every step      *)
(* lowers a non-negative measure; the offset grows with every written      *)
(* chunk, a chunk takes at most the budget of attempts, and the range      *)
(* requests of a resource number at most numChunks times the budget (a     *)
(* budget below 1 allows none).                                            *)
(***************************************************************************)
C20_Terminates ==
    /\ [](Downloading => ENABLED Next)
    /\ [][Downloading => (Rank' < Rank /\ Rank' >= 0)]_vars
    /\ [][(pc = "write" /\ pc' = "loop") => offset' > offset]_vars
    /\ [](attempts <= Budget /\ i <= Budget)
    /\ [](rangeReqs <= Len(ranges) * Budget)
    /\ []((InDownload /\ contentLen >= 0) => rangeReqs <= numChunks * Budget)

C20_Witness ==
    /\ pc = "done" /\ MaxRetry = 2 /\ numChunks = 2
    /\ rangeReqs = numChunks * MaxRetry
====
